---- MODULE Spec2Model ----
(***************************************************************************)
(* A model of retro/examples/brute_multi.py: the Brute search agent.       *)
(*                                                                         *)
(* The tree of Node objects is a function from a node's path (the          *)
(* sequence of actions leading to it from the root, <<>> for the root) to  *)
(* the node's fields; a node's children dict holds the key a exactly when  *)
(* the path extended by a is in the function's domain.                     *)
(***************************************************************************)
EXTENDS Integers, Sequences, FiniteSets, TLC

\* ------------------------------------------------------------------ bounds

\* Largest action_space.n explored (actions are 0 .. n-1).
MaxActions == 3
\* Largest max_episode_steps explored.
MaxEpisodeSteps == 2
\* SpecMerge: the number of actions its traces are made of.
NumActions == 2
\* SpecMerge: how many update_tree calls.
MaxMerges == 2
\* SpecRollout: how many times the candidate sequence is rolled out.
MaxRollouts == 2
\* cpu_count(): the number of results Brute.run maps.
NumWorkers == 2
\* The timestep_limit brute_retro runs with.
TimestepLimit == 3
\* SpecAgents: how many Brute agents one process constructs.
MaxAgents == 2

\* Total rewards handed to update_tree when it is called directly.
Rewards == {-1, 10}

\* ------------------------------------------------------------------- state

VARIABLES
    n,                  \* action_space.n
    max_episode_steps,  \* the max_episode_steps argument
    tree,               \* Brute._root and every Node reachable from it
    call,               \* the last completed call: its name, arguments, result
    sel,                \* select_actions in progress: its locals
    game,               \* the game the environment emulates
    ro,                 \* rollout in progress: its locals and its env
    runs,               \* what each completed rollout returned, in order
    pool,               \* Brute.run's Pool and the act_rew it is mapping
    brute,              \* the Brute instance, and Brute.run in progress
    drv,                \* brute_retro: its locals
    merged              \* how often update_tree has merged each result

vars == <<n, max_episode_steps, tree, call, sel, game, ro, runs, pool, brute,
          drv, merged>>

\* What is fixed when the agent is configured.
cfg == <<n, max_episode_steps, game>>
\* Brute.run and brute_retro.
sys == <<pool, brute, drv>>

\* ----------------------------------------------------------------- helpers

Max(a, b) == IF a >= b THEN a ELSE b

SeqsUpTo(S, k) == UNION {[1..i -> S] : i \in 0..k}

Actions(m) == 0 .. (m - 1)

IsPrefix(p, s) == Len(p) <= Len(s) /\ SubSeq(s, 1, Len(p)) = p

\* The results update_tree has merged, each with the number of times: none
\* yet, and one more of e.
NoMerges == <<>>
BagAdd(b, e) == IF e \in DOMAIN b THEN [b EXCEPT ![e] = @ + 1] ELSE b @@ (e :> 1)

\* -------------------------------------------------------------------- Node

\* -np.inf: below every reward the model produces.
NegInf == -1000

\* Node(): value -inf, visits 0 (children: see the module comment).
Node == [value |-> NegInf, visits |-> 0]

\* A tree holding only an unvisited root.
BareRoot == (<<>> :> Node)

\* node.children, as the set of its keys.
Children(t, p) ==
    {q[Len(q)] : q \in {c \in DOMAIN t : Len(c) = Len(p) + 1 /\ IsPrefix(p, c)}}

\* ------------------------------------------------------------- update_tree

\* A faulty variant: the value is set by the first visit alone.
BackupFirst(nd, total_rew) ==
    [value |-> IF nd.visits = 0 THEN total_rew ELSE nd.value,
     visits |-> nd.visits + 1]
\* A faulty variant: visits is counted only where the value improves.
BackupOnImprove(nd, total_rew) ==
    IF total_rew > nd.value THEN [value |-> total_rew, visits |-> nd.visits + 1]
    ELSE nd
\* A faulty variant: node.value = total_rew, without the max.
BackupNoMax(nd, total_rew) == [value |-> total_rew, visits |-> nd.visits + 1]
\* node.value = max(total_rew, node.value); node.visits += 1
Backup(nd, total_rew) ==
    [value |-> Max(total_rew, nd.value), visits |-> nd.visits + 1]

\* The for loop of update_tree from its step-th iteration on: t is the tree
\* so far, new_nodes the count so far.
RECURSIVE update_walk(_, _, _, _, _)
update_walk(t, executed_acts, total_rew, step, new_nodes) ==
    IF step > Len(executed_acts)
    THEN [tree |-> t, new_nodes |-> new_nodes]
    ELSE LET p      == SubSeq(executed_acts, 1, step)
             absent == p \notin DOMAIN t
             t1     == IF absent THEN t @@ (p :> Node) ELSE t
             t2     == [t1 EXCEPT ![p] = Backup(t1[p], total_rew)]
         IN update_walk(t2, executed_acts, total_rew, step + 1,
                        IF absent THEN new_nodes + 1 ELSE new_nodes)

\* Faulty variants: the root is not updated; every step is counted as new.
update_tree_skiproot(t, executed_acts, total_rew) ==
    update_walk(t, executed_acts, total_rew, 1, 0)
update_tree_countsteps(t, executed_acts, total_rew) ==
    [tree |-> update_walk([t EXCEPT ![<<>>] = Backup(t[<<>>], total_rew)],
                          executed_acts, total_rew, 1, 0).tree,
     new_nodes |-> Len(executed_acts)]
\* A faulty variant: a node the call creates is left as Node() made it.
update_tree_unvisited(t, executed_acts, total_rew) ==
    LET r == update_walk([t EXCEPT ![<<>>] = Backup(t[<<>>], total_rew)],
                         executed_acts, total_rew, 1, 0)
    IN [tree |-> [p \in DOMAIN r.tree |->
                     IF p \in DOMAIN t THEN r.tree[p] ELSE Node],
        new_nodes |-> r.new_nodes]
\* update_tree(root, executed_acts, total_rew): the tree after the call and
\* the returned new_nodes.
update_tree(t, executed_acts, total_rew) ==
    update_walk([t EXCEPT ![<<>>] = Backup(t[<<>>], total_rew)],
                executed_acts, total_rew, 1, 0)

\* ---------------------------------------------------------- select_actions

\* max(act_value.values())
SetMax(S) == CHOOSE x \in S : \A y \in S : x >= y
\* min, for the faulty variant worst_acts.
SetMin(S) == CHOOSE x \in S : \A y \in S : x <= y

\* act_value: each action's child value, -inf where node has no such child.
act_value(t, node, m) ==
    [act \in Actions(m) |->
        IF Append(node, act) \in DOMAIN t THEN t[Append(node, act)].value
        ELSE NegInf]

\* A faulty variant: the actions of smallest act_value.
worst_acts(t, node, m) ==
    LET av         == act_value(t, node, m)
        best_value == SetMin({av[a] : a \in DOMAIN av})
    IN {a \in DOMAIN av : av[a] = best_value}
\* best_acts: the actions whose act_value equals best_value.
best_acts(t, node, m) ==
    LET av         == act_value(t, node, m)
        best_value == SetMax({av[a] : a \in DOMAIN av})
    IN {a \in DOMAIN av : av[a] = best_value}

\* A faulty variant: while steps <= max_episode_steps.
select_continue_le(steps, max_steps) == steps <= max_steps
\* while steps < max_episode_steps
select_continue(steps, max_steps) == steps < max_steps

\* The locals of a select_actions call at the top of its while loop.  node
\* is the current node's path; lost says that node is None (node then holds
\* no meaning).  branch names how the last action was chosen.
SelectEntry ==
    [pc |-> "loop", lost |-> FALSE, node |-> <<>>, acts |-> <<>>, steps |-> 0,
     branch |-> "none"]

NoSelect == [pc |-> "idle", lost |-> FALSE, node |-> <<>>, acts |-> <<>>,
             steps |-> 0, branch |-> "none"]

\* acts.append(act); steps += 1, after the walk moved to (lost, node).
select_append(s, act, lost, node, branch) ==
    [s EXCEPT !.lost = lost, !.node = node, !.acts = Append(@, act),
              !.steps = @ + 1, !.branch = branch]

\* A faulty variant: without the child, node is left where it is.
select_descend_stay(t, s, act, branch) ==
    IF Append(s.node, act) \in DOMAIN t
    THEN select_append(s, act, FALSE, Append(s.node, act), branch)
    ELSE select_append(s, act, FALSE, s.node, branch)
\* if act in node.children: node = node.children[act] else: node = None
select_descend(t, s, act, branch) ==
    IF Append(s.node, act) \in DOMAIN t
    THEN select_append(s, act, FALSE, Append(s.node, act), branch)
    ELSE select_append(s, act, TRUE, <<>>, branch)

\* The locals after one iteration with node None: action_space.sample().
select_lost(s, m) ==
    {select_append(s, act, TRUE, <<>>, "lost") : act \in Actions(m)}

\* A faulty variant: the draw never falls below epsilon, so that this
\* iteration too is greedy.
select_explore_never(t, s, m) ==
    {select_descend(t, s, act, "greedy") : act \in best_acts(t, s.node, m)}
\* The locals after one iteration with random.random() < epsilon.
select_explore(t, s, m) ==
    {select_descend(t, s, act, "explore") : act \in Actions(m)}

\* The locals after one iteration taking the greedy branch.
select_greedy(t, s, m) ==
    {select_descend(t, s, act, "greedy") : act \in best_acts(t, s.node, m)}

\* Every acts a call may return from the locals s on.
RECURSIVE select_runs(_, _, _, _)
select_runs(t, s, m, max_steps) ==
    IF ~select_continue(s.steps, max_steps) THEN {s.acts}
    ELSE UNION {select_runs(t, s2, m, max_steps) :
                   s2 \in IF s.lost THEN select_lost(s, m)
                          ELSE select_explore(t, s, m) \cup select_greedy(t, s, m)}

\* Every acts select_actions(root, action_space, max_episode_steps) may return.
select_actions(t, m, max_steps) == select_runs(t, SelectEntry, m, max_steps)

\* ------------------------------------------------------------ environment

\* The emulator behind retro.make is outside the repository.  It is stood
\* for by deterministic games: what a frame returns is a function of the
\* frames played since reset (hist) and of the action.
\*   "score": a frame pays the action's number and the game never ends;
\*   "lives": a frame of action 0 pays nothing, any other frame costs 1, and
\*            the game ends on the second frame that is not action 0.
Games == {"score", "lives"}

\* env.action_space.n: "score" has three actions, "lives" has two.
action_space(g) == IF g = "score" THEN 3 ELSE 2

Misses(hist) == Cardinality({i \in 1..Len(hist) : hist[i] # 0})

RawStep(g, hist, act) ==
    IF g = "score"
    THEN [rew |-> act, done |-> FALSE]
    ELSE [rew |-> IF act = 0 THEN 0 ELSE -1,
          done |-> Misses(Append(hist, act)) >= 2]

\* Frameskip.__init__: skip=4
Skip == 4

\* Frameskip.step from its i-th iteration on.
RECURSIVE frameskip_loop(_, _, _, _, _)
frameskip_loop(g, hist, act, i, total_rew) ==
    LET r     == RawStep(g, hist, act)
        hist2 == Append(hist, act)
        total == total_rew + r.rew
    IN IF r.done \/ i + 1 >= Skip
       THEN [hist |-> hist2, rew |-> total, done |-> r.done]
       ELSE frameskip_loop(g, hist2, act, i + 1, total)

Frameskip_step(g, hist, act) == frameskip_loop(g, hist, act, 0, 0)

\* make_env: TimeLimit(Frameskip(retro.make(game)), max_episode_steps), with
\* TimeLimit.__init__ setting _elapsed_steps = 0.
make_env(g, max_steps) ==
    [game |-> g, hist |-> <<>>, max_episode_steps |-> max_steps,
     elapsed_steps |-> 0]

\* TimeLimit.reset: _elapsed_steps = 0, and the inner reset.
TimeLimit_reset(env) == [env EXCEPT !.elapsed_steps = 0, !.hist = <<>>]

\* TimeLimit.step: the env after the step, the reward and done.
TimeLimit_step(env, ac) ==
    LET r       == Frameskip_step(env.game, env.hist, ac)
        elapsed == env.elapsed_steps + 1
    IN [env  |-> [env EXCEPT !.hist = r.hist, !.elapsed_steps = elapsed],
        rew  |-> r.rew,
        done |-> r.done \/ elapsed >= env.max_episode_steps]

\* The toy environment of the specification's end-to-end scenario, handed to
\* Brute as its env maker in place of make_env: two actions, three steps;
\* action 0 pays 1 at every step, action 1 pays 5 at the first step and
\* nothing later, and ends the episode.
ToySteps == 3

ToyEnv == [game |-> "toy", hist |-> <<>>, max_episode_steps |-> ToySteps,
           elapsed_steps |-> 0]

Toy_reset(env) == [env EXCEPT !.elapsed_steps = 0, !.hist = <<>>]

Toy_step(env, ac) ==
    LET elapsed == env.elapsed_steps + 1
    IN [env  |-> [env EXCEPT !.hist = Append(@, ac), !.elapsed_steps = elapsed],
        rew  |-> IF ac = 0 THEN 1 ELSE IF env.elapsed_steps = 0 THEN 5 ELSE 0,
        done |-> ac = 1 \/ elapsed >= ToySteps]

\* env_maker(game, state, scenario, max_episode_steps): the maker the agent
\* was constructed with, and the reset and step of the env it made.
env_maker(g, max_steps) == IF g = "toy" THEN ToyEnv ELSE make_env(g, max_steps)
env_reset(env) == IF env.game = "toy" THEN Toy_reset(env) ELSE TimeLimit_reset(env)
env_step(env, ac) ==
    IF env.game = "toy" THEN Toy_step(env, ac) ELSE TimeLimit_step(env, ac)

\* ----------------------------------------------------------------- rollout

\* A faulty variant: the loop never breaks.
rollout_break_never(done) == FALSE
\* if done: break
rollout_break(done) == done

\* The for loop of rollout from position idx of acts on.
RECURSIVE rollout_loop(_, _, _, _, _)
rollout_loop(env, acts, idx, steps, total_rew) ==
    IF idx > Len(acts) THEN [steps |-> steps, total_rew |-> total_rew]
    ELSE LET r == env_step(env, acts[idx])
         IN IF rollout_break(r.done)
            THEN [steps |-> steps + 1, total_rew |-> total_rew + r.rew]
            ELSE rollout_loop(r.env, acts, idx + 1, steps + 1,
                              total_rew + r.rew)

\* rollout(env_maker, game, state, scenario, max_episode_steps, acts)
rollout(g, max_steps, acts) ==
    rollout_loop(env_reset(env_maker(g, max_steps)), acts, 1, 0, 0)

\* Every executed_acts, total_rew that Brute.get_acts may return when
\* self._root is t.
get_acts(t, m, g, max_steps) ==
    {LET r == rollout(g, max_steps, acts)
     IN [executed_acts |-> SubSeq(acts, 1, r.steps), total_rew |-> r.total_rew] :
        acts \in select_actions(t, m, max_steps)}

\* The locals of rollout: idx is the position of the for loop in acts, log
\* what env.step was given and returned at each call so far.
NoRollout ==
    [pc |-> "idle", env |-> make_env("score", 0), acts |-> <<>>, idx |-> 1,
     steps |-> 0, total_rew |-> 0, log |-> <<>>]

\* --------------------------------------------------------------- Brute.run

\* An entry of act_rew that pool.map has not received yet.
NoResult == [done |-> FALSE, executed_acts |-> <<>>, total_rew |-> 0, rnd |-> 0]

\* The for loop of Brute.run from position i of act_rew on: t is the tree
\* and node_count the count so far.
RECURSIVE merge_loop(_, _, _, _)
merge_loop(t, act_rew, i, node_count) ==
    IF i > Len(act_rew) THEN [tree |-> t, node_count |-> node_count]
    ELSE LET r == update_tree(t, act_rew[i].executed_acts, act_rew[i].total_rew)
         IN merge_loop(r.tree, act_rew, i + 1, node_count + r.new_nodes)

\* A faulty variant: the results are used as soon as one has arrived.
map_done_any(act_rew) == \E w \in DOMAIN act_rew : act_rew[w].done
\* pool.map returns once every call of get_acts has returned.
map_done(act_rew) == \A w \in DOMAIN act_rew : act_rew[w].done

\* A faulty variant: a later entry of equal key replaces best.
RECURSIVE max_scan_last(_, _, _)
max_scan_last(act_rew, i, best) ==
    IF i > Len(act_rew) THEN best
    ELSE max_scan_last(act_rew, i + 1,
                       IF act_rew[i].total_rew >= best.total_rew
                       THEN act_rew[i] ELSE best)
\* max(act_rew, key=lambda t: t[1]) from position i on, best being the
\* largest so far: a later entry replaces it only if its key is greater.
RECURSIVE max_scan(_, _, _)
max_scan(act_rew, i, best) ==
    IF i > Len(act_rew) THEN best
    ELSE max_scan(act_rew, i + 1,
                  IF act_rew[i].total_rew > best.total_rew
                  THEN act_rew[i] ELSE best)

\* ---------------------------------------------------------------- actions

NoCall == [op |-> "none"]
NoPool == [pc |-> "none", snap |-> BareRoot, act_rew |-> <<>>]
NoBrute == [pc |-> "none", node_count |-> 0, i |-> 0, rnd |-> 0, ret |-> NoResult,
            agents |-> 0]
NoDriver == [pc |-> "none", timesteps |-> 0, best_rew |-> NegInf,
             acts |-> <<>>, rew |-> 0, recorded |-> <<>>]

\* brute_retro up to its loop: Brute(make_env, ...), timesteps = 0,
\* best_rew = float('-inf').  Brute.__init__ sets node_count = 1 and does not
\* assign _root: it is the class attribute, one Node made when the class
\* body ran, which every agent of the process reads as self._root.  agents
\* counts the agents the process has constructed.
DriverConstruct ==
    /\ drv.pc = "start"
    /\ brute' = [NoBrute EXCEPT !.pc = "ready", !.node_count = 1,
                                !.agents = brute.agents + 1]
    /\ drv' = [drv EXCEPT !.pc = "loop", !.timesteps = 0, !.best_rew = NegInf]
    /\ UNCHANGED <<cfg, merged, tree, call, sel, ro, runs, pool>>

\* brute.run() is called: Pool() forks the workers, each with the memory of
\* the parent as it is now (snap), and pool.map hands out the calls.
RunPool ==
    /\ drv.pc = "loop"
    /\ brute.pc = "ready"
    /\ pool' = [pc |-> "open", snap |-> tree,
                act_rew |-> [w \in 1..NumWorkers |-> NoResult]]
    /\ brute' = [brute EXCEPT !.pc = "map", !.rnd = @ + 1]
    /\ drv' = [drv EXCEPT !.pc = "run"]
    /\ UNCHANGED <<cfg, merged, tree, call, sel, ro, runs>>

\* A worker runs get_acts for entry w, on its own memory and its own env.
WorkerGetActs(w) ==
    /\ pool.pc = "open"
    /\ ~pool.act_rew[w].done
    /\ \E r \in get_acts(pool.snap, n, game, max_episode_steps) :
          pool' = [pool EXCEPT !.act_rew[w] =
                      [done |-> TRUE, executed_acts |-> r.executed_acts,
                       total_rew |-> r.total_rew, rnd |-> brute.rnd]]
    /\ UNCHANGED <<cfg, merged, tree, call, sel, ro, runs, brute, drv>>

\* pool.map returns act_rew; pool.close().
RunMapReturn ==
    /\ brute.pc = "map"
    /\ map_done(pool.act_rew)
    /\ pool' = [pool EXCEPT !.pc = "closed", !.snap = BareRoot]
    /\ brute' = [brute EXCEPT !.pc = "merge", !.i = 1]
    /\ UNCHANGED <<cfg, merged, tree, call, sel, ro, runs, drv>>

\* A faulty variant: the loop passes over every second result.
RunMergeStride ==
    /\ brute.pc = "merge"
    /\ brute.i <= Len(pool.act_rew)
    /\ LET e == pool.act_rew[brute.i]
           r == update_tree(tree, e.executed_acts, e.total_rew)
       IN /\ tree' = r.tree
          /\ brute' = [brute EXCEPT !.node_count = @ + r.new_nodes, !.i = @ + 2]
          /\ call' = [op |-> "update_tree", acts |-> e.executed_acts,
                      rew |-> e.total_rew, ret |-> r.new_nodes]
          /\ merged' = BagAdd(merged, [acts |-> e.executed_acts,
                                       rew |-> e.total_rew])
    /\ UNCHANGED <<cfg, sel, ro, runs, pool, drv>>
\* One iteration of the for loop over act_rew:
\* self.node_count += update_tree(self._root, executed_acts, total_rew)
RunMerge ==
    /\ brute.pc = "merge"
    /\ brute.i <= Len(pool.act_rew)
    /\ LET e == pool.act_rew[brute.i]
           r == update_tree(tree, e.executed_acts, e.total_rew)
       IN /\ tree' = r.tree
          /\ brute' = [brute EXCEPT !.node_count = @ + r.new_nodes, !.i = @ + 1]
          /\ call' = [op |-> "update_tree", acts |-> e.executed_acts,
                      rew |-> e.total_rew, ret |-> r.new_nodes]
          /\ merged' = BagAdd(merged, [acts |-> e.executed_acts,
                                       rew |-> e.total_rew])
    /\ UNCHANGED <<cfg, sel, ro, runs, pool, drv>>

\* The loop is over: max(act_rew, key=...) is returned to brute_retro.
RunReturn ==
    /\ brute.pc = "merge"
    /\ brute.i > Len(pool.act_rew)
    /\ LET best == max_scan(pool.act_rew, 2, pool.act_rew[1])
       IN /\ brute' = [brute EXCEPT !.pc = "ready", !.ret = best]
          /\ drv' = [drv EXCEPT !.pc = "after", !.acts = best.executed_acts,
                                !.rew = best.total_rew]
    /\ UNCHANGED <<cfg, merged, tree, call, sel, ro, runs, pool>>

\* A faulty variant: if rew >= best_rew.
DriverAfterRunGe ==
    /\ drv.pc = "after"
    /\ drv' = [drv EXCEPT !.timesteps = @ + Len(drv.acts),
                          !.best_rew = IF drv.rew >= @ THEN drv.rew ELSE @,
                          !.pc = IF drv.rew >= drv.best_rew THEN "record"
                                 ELSE "check"]
    /\ UNCHANGED <<cfg, merged, tree, call, sel, ro, runs, pool, brute>>
\* timesteps += len(acts); if rew > best_rew: best_rew = rew, and on to the
\* recording.
DriverAfterRun ==
    /\ drv.pc = "after"
    /\ drv' = [drv EXCEPT !.timesteps = @ + Len(drv.acts),
                          !.best_rew = IF drv.rew > @ THEN drv.rew ELSE @,
                          !.pc = IF drv.rew > drv.best_rew THEN "record"
                                 ELSE "check"]
    /\ UNCHANGED <<cfg, merged, tree, call, sel, ro, runs, pool, brute>>

\* The recording: a fresh env replays acts between record_movie and
\* stop_record.
DriverRecord ==
    /\ drv.pc = "record"
    /\ drv' = [drv EXCEPT !.pc = "check", !.recorded = drv.acts]
    /\ UNCHANGED <<cfg, merged, tree, call, sel, ro, runs, pool, brute>>

\* The recording fails: record_movie, env.step or stop_record raises.  No
\* try statement encloses lines 226-234 and none encloses the loop, so the
\* exception leaves brute_retro.
DriverRecordFail ==
    /\ drv.pc = "record"
    /\ drv' = [drv EXCEPT !.pc = "raised"]
    /\ UNCHANGED <<cfg, merged, tree, call, sel, ro, runs, pool, brute>>

\* A faulty variant: if timesteps >= timestep_limit: break
DriverCheckGe ==
    /\ drv.pc = "check"
    /\ drv' = [drv EXCEPT !.pc = IF drv.timesteps >= TimestepLimit THEN "done"
                                 ELSE "loop"]
    /\ UNCHANGED <<cfg, merged, tree, call, sel, ro, runs, pool, brute>>
\* if timesteps > timestep_limit: break
DriverCheck ==
    /\ drv.pc = "check"
    /\ drv' = [drv EXCEPT !.pc = IF drv.timesteps > TimestepLimit THEN "done"
                                 ELSE "loop"]
    /\ UNCHANGED <<cfg, merged, tree, call, sel, ro, runs, pool, brute>>

\* brute_retro has returned and is called again in the same process.
DriverCallAgain ==
    /\ drv.pc = "done"
    /\ brute.agents < MaxAgents
    /\ drv' = [NoDriver EXCEPT !.pc = "start"]
    /\ UNCHANGED <<cfg, merged, tree, call, sel, ro, runs, pool, brute>>

\* A faulty variant: after the first rollout the env of the last one is
\* used again, neither made afresh nor reset.
RolloutEnterReuse(acts) ==
    /\ ro.pc = "idle"
    /\ ro' = [pc |-> "for",
              env |-> IF runs = <<>> THEN env_maker(game, max_episode_steps)
                      ELSE ro.env,
              acts |-> acts, idx |-> 1, steps |-> 0, total_rew |-> 0,
              log |-> <<>>]
    /\ UNCHANGED <<cfg, merged, tree, call, sel, runs, sys>>
\* rollout(env_maker, ..., acts) is entered: total_rew = 0,
\* env = env_maker(...), env.reset(), steps = 0.
RolloutEnter(acts) ==
    /\ ro.pc = "idle"
    /\ ro' = [pc |-> "for",
              env |-> env_reset(env_maker(game, max_episode_steps)),
              acts |-> acts, idx |-> 1, steps |-> 0, total_rew |-> 0,
              log |-> <<>>]
    /\ UNCHANGED <<cfg, merged, tree, call, sel, runs, sys>>

\* One iteration of the for loop: env.step(act), steps += 1,
\* total_rew += rew, and break if done.
RolloutStep ==
    /\ ro.pc = "for"
    /\ ro.idx <= Len(ro.acts)
    /\ LET act == ro.acts[ro.idx]
           r   == env_step(ro.env, act)
       IN ro' = [ro EXCEPT
                    !.env = r.env,
                    !.steps = @ + 1,
                    !.total_rew = @ + r.rew,
                    !.idx = @ + 1,
                    !.log = Append(@, [act |-> act, rew |-> r.rew,
                                       done |-> r.done]),
                    !.pc = IF rollout_break(r.done) THEN "close" ELSE "for"]
    /\ UNCHANGED <<cfg, merged, tree, call, sel, runs, sys>>

\* The for loop runs out of actions.
RolloutExhausted ==
    /\ ro.pc = "for"
    /\ ro.idx > Len(ro.acts)
    /\ ro' = [ro EXCEPT !.pc = "close"]
    /\ UNCHANGED <<cfg, merged, tree, call, sel, runs, sys>>

\* env.close(); return steps, total_rew; and get_acts, which called, cuts
\* executed_acts = acts[:steps] and returns executed_acts, total_rew.
RolloutReturn ==
    /\ ro.pc = "close"
    /\ ro' = [ro EXCEPT !.pc = "idle"]
    /\ call' = [op |-> "get_acts", acts |-> ro.acts, steps |-> ro.steps,
                executed_acts |-> SubSeq(ro.acts, 1, ro.steps),
                total_rew |-> ro.total_rew, log |-> ro.log]
    /\ runs' = Append(runs, [acts |-> ro.acts,
                             executed_acts |-> SubSeq(ro.acts, 1, ro.steps),
                             total_rew |-> ro.total_rew])
    /\ UNCHANGED <<cfg, merged, tree, sel, sys>>

\* get_acts hands the sequence select_actions returned to rollout.
GetActsRollout ==
    /\ sel.pc = "done"
    /\ runs = <<>>
    /\ RolloutEnter(sel.acts)

\* The same sequence is rolled out again.
RolloutAgain ==
    /\ runs # <<>>
    /\ Len(runs) < MaxRollouts
    /\ RolloutEnter(sel.acts)

\* select_actions(root, action_space, max_episode_steps) is entered.
SelectCall ==
    /\ sel.pc = "idle"
    /\ sel' = SelectEntry
    /\ UNCHANGED <<cfg, merged, tree, call, ro, runs, sys>>

\* One iteration with node None: act = action_space.sample().
SelectLost ==
    /\ sel.pc = "loop"
    /\ select_continue(sel.steps, max_episode_steps)
    /\ sel.lost
    /\ sel' \in select_lost(sel, n)
    /\ UNCHANGED <<cfg, merged, tree, call, ro, runs, sys>>

\* One iteration with random.random() < epsilon: a sampled action.  epsilon
\* is EXPLORATION_PARAM / log(visits + 2), which lies strictly between 0
\* and 1 for every visits >= 0, so the draw can fall either way.
SelectExplore ==
    /\ sel.pc = "loop"
    /\ select_continue(sel.steps, max_episode_steps)
    /\ ~sel.lost
    /\ sel' \in select_explore(tree, sel, n)
    /\ UNCHANGED <<cfg, merged, tree, call, ro, runs, sys>>

\* A faulty variant: the greedy branch inserts the child it does not find.
SelectGreedyCreating ==
    /\ sel.pc = "loop"
    /\ select_continue(sel.steps, max_episode_steps)
    /\ ~sel.lost
    /\ \E act \in best_acts(tree, sel.node, n) :
          /\ tree' = IF Append(sel.node, act) \in DOMAIN tree THEN tree
                     ELSE tree @@ (Append(sel.node, act) :> Node)
          /\ sel' = select_descend(tree', sel, act, "greedy")
    /\ UNCHANGED <<cfg, merged, call, ro, runs, sys>>
\* One iteration taking the greedy branch.  max() of an empty act_value
\* raises ValueError.
SelectGreedy ==
    /\ sel.pc = "loop"
    /\ select_continue(sel.steps, max_episode_steps)
    /\ ~sel.lost
    /\ IF Actions(n) = {}
       THEN sel' = [sel EXCEPT !.pc = "raised"]
       ELSE sel' \in select_greedy(tree, sel, n)
    /\ UNCHANGED <<cfg, merged, tree, call, ro, runs, sys>>

\* The loop ends: return acts.
SelectReturn ==
    /\ sel.pc = "loop"
    /\ ~select_continue(sel.steps, max_episode_steps)
    /\ sel' = [sel EXCEPT !.pc = "done"]
    /\ call' = [op |-> "select_actions", ret |-> sel.acts]
    /\ UNCHANGED <<cfg, merged, tree, ro, runs, sys>>

\* A direct call update_tree(root, executed_acts, total_rew).
UpdateTreeCall(executed_acts, total_rew) ==
    /\ tree[<<>>].visits < MaxMerges
    /\ LET r == update_tree(tree, executed_acts, total_rew)
       IN /\ tree' = r.tree
          /\ call' = [op |-> "update_tree", acts |-> executed_acts,
                      rew |-> total_rew, ret |-> r.new_nodes]
          /\ merged' = BagAdd(merged, [acts |-> executed_acts,
                                       rew |-> total_rew])
    /\ UNCHANGED <<cfg, sel, ro, runs, sys>>

InitMerge ==
    /\ n = NumActions
    /\ max_episode_steps = MaxEpisodeSteps
    /\ tree = BareRoot
    /\ call = NoCall
    /\ sel = NoSelect
    /\ game = "score"
    /\ ro = NoRollout
    /\ runs = <<>>
    /\ pool = NoPool
    /\ brute = NoBrute
    /\ drv = NoDriver
    /\ merged = NoMerges

NextMerge ==
    \E executed_acts \in SeqsUpTo(Actions(n), max_episode_steps),
       total_rew \in Rewards :
        UpdateTreeCall(executed_acts, total_rew)

\* Any sequence of direct update_tree calls on a tree that starts bare.
SpecMerge == InitMerge /\ [][NextMerge]_vars

\* Rollout results merged into the trees select_actions is called on.
SeedResults ==
    {[acts |-> <<2>>, rew |-> 10], [acts |-> <<0>>, rew |-> 5],
     [acts |-> <<0, 1>>, rew |-> 10], [acts |-> <<1, 0>>, rew |-> -1],
     [acts |-> <<1>>, rew |-> 10], [acts |-> <<0, 0>>, rew |-> -1]}

\* The tree after update_tree has merged every result of S into t.
RECURSIVE MergeAll(_, _)
MergeAll(t, S) ==
    IF S = {} THEN t
    ELSE LET r == CHOOSE x \in S : TRUE
         IN MergeAll(update_tree(t, r.acts, r.rew).tree, S \ {r})

InitSelect ==
    /\ n \in 1..MaxActions
    /\ max_episode_steps \in 0..MaxEpisodeSteps
    /\ \E S \in SUBSET {r \in SeedResults :
                           \A i \in 1..Len(r.acts) : r.acts[i] \in Actions(n)} :
          tree = MergeAll(BareRoot, S)
    /\ call = NoCall
    /\ sel = NoSelect
    /\ game = "score"
    /\ ro = NoRollout
    /\ runs = <<>>
    /\ pool = NoPool
    /\ brute = NoBrute
    /\ drv = NoDriver
    /\ merged = NoMerges

NextSelect ==
    \/ SelectCall
    \/ SelectLost
    \/ SelectExplore
    \/ SelectGreedy
    \/ SelectReturn

\* One select_actions call on a tree built by update_tree.
SpecSelect == InitSelect /\ [][NextSelect]_vars

InitRollout ==
    /\ game \in Games
    /\ n = action_space(game)
    /\ max_episode_steps \in 0..MaxEpisodeSteps
    /\ tree = BareRoot
    /\ call = NoCall
    /\ sel = NoSelect
    /\ ro = NoRollout
    /\ runs = <<>>
    /\ pool = NoPool
    /\ brute = NoBrute
    /\ drv = NoDriver
    /\ merged = NoMerges

NextRollout ==
    \/ NextSelect
    \/ GetActsRollout
    \/ RolloutStep
    \/ RolloutExhausted
    \/ RolloutReturn
    \/ RolloutAgain

\* get_acts: select_actions on a bare root, then rollout of what it
\* returned, then rollouts of the same sequence again.
SpecRollout == InitRollout /\ [][NextRollout]_vars

Init ==
    /\ game = "lives"
    /\ n = action_space(game)
    /\ max_episode_steps \in 1..MaxEpisodeSteps
    /\ tree = BareRoot
    /\ call = NoCall
    /\ sel = NoSelect
    /\ ro = NoRollout
    /\ runs = <<>>
    /\ pool = NoPool
    /\ brute = NoBrute
    /\ drv = [NoDriver EXCEPT !.pc = "start"]
    /\ merged = NoMerges

Next ==
    \/ DriverConstruct
    \/ RunPool
    \/ \E w \in 1..NumWorkers : WorkerGetActs(w)
    \/ RunMapReturn
    \/ RunMerge
    \/ RunReturn
    \/ DriverAfterRun
    \/ DriverRecord
    \/ DriverCheck

\* brute_retro: the agent is built and runs rounds until the timestep limit
\* is exceeded.
Spec == Init /\ [][Next]_vars

\* A call of get_acts handed to a worker returns: weak fairness of
\* WorkerGetActs(w), which is enabled exactly while the pool is open and
\* entry w is not in, and which puts entry w in.
WorkerReturns(w) == []<>(~(pool.pc = "open" /\ ~pool.act_rew[w].done))

\* The for loop over act_rew and the max that follows it come to an end:
\* weak fairness of RunMerge and of RunReturn, one of which is enabled
\* exactly while Brute.run is at its loop, the loop taking Len(act_rew)
\* iterations.
MergeLoopEnds == []<>(brute.pc # "merge")

\* The thread that runs brute_retro and Brute.run takes its next step as
\* long as it has one.
MainThreadRuns ==
    /\ WF_vars(DriverConstruct) /\ WF_vars(RunPool) /\ WF_vars(RunMapReturn)
    /\ MergeLoopEnds
    /\ WF_vars(DriverAfterRun) /\ WF_vars(DriverRecord) /\ WF_vars(DriverCheck)

\* brute_retro as a running program: its thread keeps running and every
\* worker of the pool finishes its call.
FairSpec ==
    /\ Spec
    /\ MainThreadRuns
    /\ \A w \in 1..NumWorkers : WorkerReturns(w)

InitToy ==
    /\ game = "toy"
    /\ n = action_space(game)
    /\ max_episode_steps = ToySteps
    /\ tree = BareRoot
    /\ call = NoCall
    /\ sel = NoSelect
    /\ ro = NoRollout
    /\ runs = <<>>
    /\ pool = NoPool
    /\ brute = NoBrute
    /\ drv = [NoDriver EXCEPT !.pc = "start"]
    /\ merged = NoMerges

\* brute_retro on the toy environment, run to completion as in FairSpec.
FairSpecToy ==
    /\ InitToy /\ [][Next]_vars
    /\ MainThreadRuns
    /\ \A w \in 1..NumWorkers : WorkerReturns(w)

NextRecorder ==
    \/ Next
    \/ DriverRecordFail

\* brute_retro with a recorder that may fail.
SpecRecorder == Init /\ [][NextRecorder]_vars

NextAgents ==
    \/ Next
    \/ DriverCallAgain

\* brute_retro called several times in one process, an agent constructed by
\* each call.
SpecAgents == Init /\ [][NextAgents]_vars

\* ------------------------------------------------------------ update_tree

\* The node at path p before a call, a node the call creates counting as
\* Node(): value -inf, visits 0.
OldNode(t, p) == IF p \in DOMAIN t THEN t[p] ELSE [value |-> NegInf, visits |-> 0]

\* C1: across update_tree calls no node is removed, and no node's value or
\* visits decreases.
C1_Monotone ==
    [][\A p \in DOMAIN tree :
          /\ p \in DOMAIN tree'
          /\ tree'[p].value >= tree[p].value
          /\ tree'[p].visits >= tree[p].visits]_vars

\* A call has merged a reward below the value the root already held.
C1_Witness ==
    /\ call.op = "update_tree"
    /\ tree[<<>>].visits >= 2
    /\ call.rew < tree[<<>>].value

\* C2: update_tree returns the number of positions of the trace whose edge
\* did not exist when the call started, and the tree grows by that many nodes.
C2_NewNodeCount ==
    [][call'.op = "update_tree" =>
          /\ call'.ret = Cardinality({i \in 1..Len(call'.acts) :
                                        SubSeq(call'.acts, 1, i) \notin DOMAIN tree})
          /\ Cardinality(DOMAIN tree') = Cardinality(DOMAIN tree) + call'.ret]_vars

\* A call whose trace ran over an existing edge and then created a node.
C2_Witness ==
    /\ call.op = "update_tree"
    /\ call.ret >= 1
    /\ call.ret < Len(call.acts)

\* C3: one call sets value := max(old, total_rew) and visits := old + 1 on
\* exactly the nodes of the trace's path (a created node counting as -inf
\* and 0) and leaves every other node's value, visits and children alone.
C3_PathOnly ==
    [][call'.op = "update_tree" =>
          LET a == call'.acts
              r == call'.rew
          IN /\ DOMAIN tree' = DOMAIN tree \cup {SubSeq(a, 1, i) : i \in 0..Len(a)}
             /\ \A p \in DOMAIN tree' :
                   IF IsPrefix(p, a)
                   THEN /\ tree'[p].value =
                             (IF OldNode(tree, p).value >= r
                              THEN OldNode(tree, p).value ELSE r)
                        /\ tree'[p].visits = OldNode(tree, p).visits + 1
                   ELSE /\ p \in DOMAIN tree
                        /\ tree'[p] = tree[p]
                        /\ Children(tree', p) = Children(tree, p)]_vars

\* A call that created a node, passed a node holding a larger value, and
\* left a node off its path.
C3_Witness ==
    /\ call.op = "update_tree"
    /\ call.ret >= 1
    /\ tree[<<>>].value > call.rew
    /\ \E p \in DOMAIN tree : ~IsPrefix(p, call.acts)

\* --------------------------------------------------------- select_actions

\* C4: select_actions never raises, can always take its next iteration, and
\* returns exactly max_episode_steps actions, each in [0, n).
C4_FullLength ==
    /\ sel.pc # "raised"
    /\ (sel.pc = "loop" /\ select_continue(sel.steps, max_episode_steps)
            => ENABLED (SelectLost \/ SelectExplore \/ SelectGreedy))
    /\ (sel.pc = "done" =>
            /\ call.op = "select_actions"
            /\ Len(call.ret) = max_episode_steps
            /\ \A i \in 1..Len(call.ret) : call.ret[i] \in 0..(n - 1))

\* A call on a bare unvisited root has returned a sequence of two actions.
C4_Witness ==
    /\ sel.pc = "done"
    /\ tree = BareRoot
    /\ Len(call.ret) >= 2

\* C5: no step of select_actions changes the tree.
C5_ReadOnly == [][tree' = tree]_vars

\* A call has walked into the tree, fallen off it, and returned.
C5_Witness ==
    /\ sel.pc = "done"
    /\ sel.lost
    /\ Len(sel.acts) >= 2
    /\ <<sel.acts[1]>> \in DOMAIN tree

\* The value select_actions reads for action a at the node with path p.
ChildValue(t, p, a) ==
    IF Append(p, a) \in DOMAIN t THEN t[Append(p, a)].value ELSE NegInf

\* C6: an iteration that is not lost and does not explore chooses an action
\* whose child value is the largest over the action space; where the only
\* child is that of action 2, holding value 10, it chooses 2.
C6_GreedyMax ==
    [][sel'.steps = sel.steps + 1 /\ sel'.branch = "greedy" =>
          LET act == sel'.acts[Len(sel'.acts)]
          IN /\ ~sel.lost
             /\ act \in Actions(n)
             /\ \A b \in Actions(n) :
                   ChildValue(tree, sel.node, act) >= ChildValue(tree, sel.node, b)
             /\ (Children(tree, sel.node) = {2}
                    /\ tree[Append(sel.node, 2)].value = 10 => act = 2)]_vars

\* The greedy branch has chosen at a root whose only child is that of
\* action 2, holding value 10.
C6_Witness ==
    /\ sel.steps = 1
    /\ sel.branch = "greedy"
    /\ n >= 3
    /\ Children(tree, <<>>) = {2}
    /\ tree[<<2>>].value = 10

\* An iteration of the while loop of select_actions.
SelectIteration == SelectLost \/ SelectExplore \/ SelectGreedy

\* C18: within a call, while the position is not lost the current node is
\* the tree node reached from the root by the actions chosen so far; the
\* position is lost by the first chosen action that has no child at the
\* current node, and stays lost; an iteration at a lost position takes the
\* branch that samples, whatever the tree holds, and may append any action
\* of the action space.  On a bare root the position is lost after the
\* first step and every sequence of max_episode_steps actions can be
\* returned.
C18_LostForGood ==
    /\ [](~sel.lost => sel.node = sel.acts /\ sel.acts \in DOMAIN tree)
    /\ [](sel.lost =>
            \E k \in 1..Len(sel.acts) :
                /\ SubSeq(sel.acts, 1, k - 1) \in DOMAIN tree
                /\ SubSeq(sel.acts, 1, k) \notin DOMAIN tree)
    /\ [](sel.lost /\ sel.pc = "loop"
                /\ select_continue(sel.steps, max_episode_steps) =>
            \A a \in Actions(n) :
                ENABLED (SelectLost /\ sel'.acts = Append(sel.acts, a)))
    /\ [][/\ (sel.lost => sel'.lost)
          /\ (sel.lost /\ sel'.steps = sel.steps + 1 => sel'.branch = "lost")
          /\ (~sel.lost /\ sel'.steps = sel.steps + 1 =>
                /\ sel'.branch \in {"explore", "greedy"}
                /\ sel'.lost <=> sel'.acts \notin DOMAIN tree)]_vars
    /\ [](tree = BareRoot =>
            /\ (sel.steps >= 1 => sel.lost)
            /\ (sel.pc = "loop"
                    /\ select_continue(sel.steps, max_episode_steps) =>
                  \A a \in Actions(n) :
                      ENABLED (SelectIteration /\ sel'.acts = Append(sel.acts, a)))
            /\ select_actions(tree, n, max_episode_steps)
                  = [1..max_episode_steps -> Actions(n)])

\* A call lost its position at the first step and then drew, at the lost
\* position, an action whose child the root does have.
C18_Witness ==
    /\ sel.lost
    /\ sel.steps >= 2
    /\ sel.branch = "lost"
    /\ <<sel.acts[1]>> \notin DOMAIN tree
    /\ <<sel.acts[2]>> \in DOMAIN tree

\* ----------------------------------------------------------------- rollout

RECURSIVE SumRew(_)
SumRew(log) == IF log = <<>> THEN 0 ELSE log[1].rew + SumRew(Tail(log))

\* C7: rollout gives the env the candidate actions in order from a reset,
\* stops at the first step that reports done or when the candidates run out;
\* get_acts returns the candidate's prefix of that many actions (at most
\* max_episode_steps) and the sum of those steps' rewards.
C7_Prefix ==
    call.op = "get_acts" =>
        LET log == call.log
        IN /\ call.steps = Len(log)
           /\ Len(log) <= Len(call.acts)
           /\ \A i \in 1..Len(log) : log[i].act = call.acts[i]
           /\ \A i \in 1..(Len(log) - 1) : ~log[i].done
           /\ (Len(log) = Len(call.acts) \/ log[Len(log)].done)
           /\ call.executed_acts = [i \in 1..Len(log) |-> call.acts[i]]
           /\ Len(call.executed_acts) <= max_episode_steps
           /\ call.total_rew = SumRew(log)

\* A rollout the game ended before the candidates ran out.
C7_Witness ==
    /\ call.op = "get_acts"
    /\ call.steps >= 1
    /\ call.steps < Len(call.acts)

\* C8: two rollouts of one candidate sequence return the same executed
\* actions and the same total reward.
C8_Replay ==
    \A i, j \in 1..Len(runs) :
        runs[i].acts = runs[j].acts =>
            /\ runs[i].executed_acts = runs[j].executed_acts
            /\ runs[i].total_rew = runs[j].total_rew

\* Two rollouts of a candidate of two actions have returned.
C8_Witness ==
    /\ Len(runs) >= 2
    /\ Len(runs[1].acts) >= 2
    /\ runs[1].acts = runs[2].acts

\* --------------------------------------------------------------- Brute.run

\* C9: Brute.run returns a result of this round whose reward is at least
\* that of every result of the round, and of those the first in act_rew.
C9_FirstMax ==
    drv.pc = "after" =>
        /\ \A w \in 1..NumWorkers :
              pool.act_rew[w].done /\ pool.act_rew[w].rnd = brute.rnd
        /\ \E k \in 1..NumWorkers :
              /\ brute.ret = pool.act_rew[k]
              /\ \A j \in 1..NumWorkers :
                    pool.act_rew[j].total_rew <= pool.act_rew[k].total_rew
              /\ \A j \in 1..(k - 1) :
                    pool.act_rew[j].total_rew < pool.act_rew[k].total_rew
        /\ drv.acts = brute.ret.executed_acts
        /\ drv.rew = brute.ret.total_rew

\* A second round has returned, and two of its results of different actions
\* share the largest reward.
C9_Witness ==
    /\ drv.pc = "after"
    /\ brute.rnd >= 2
    /\ \E j, k \in 1..NumWorkers :
          /\ j < k
          /\ pool.act_rew[j].total_rew = brute.ret.total_rew
          /\ pool.act_rew[k].total_rew = brute.ret.total_rew
          /\ pool.act_rew[j].executed_acts # pool.act_rew[k].executed_acts

\* C10: the tree changes only once every result of the round is in and
\* the pool is closed, and a worker that produces a result has read a tree
\* equal to the parent's, which is the tree the round started with.
C10_PhaseSeparation ==
    [][/\ (tree' # tree =>
             /\ pool.pc = "closed"
             /\ DOMAIN pool.act_rew = 1..NumWorkers
             /\ \A w \in 1..NumWorkers : pool.act_rew[w].done)
       /\ ((\E w \in DOMAIN pool.act_rew :
                ~pool.act_rew[w].done /\ pool'.act_rew[w].done) =>
             /\ pool.snap = tree
             /\ tree' = tree
             /\ tree[<<>>].visits = NumWorkers * (brute.rnd - 1))]_vars

\* In a second round one worker has returned and another has not.
C10_Witness ==
    /\ brute.rnd >= 2
    /\ pool.pc = "open"
    /\ \E v, w \in 1..NumWorkers : pool.act_rew[v].done /\ ~pool.act_rew[w].done

\* ------------------------------------------------------------------ rounds

\* The number of results a bag of merged results holds.
RECURSIVE BagSize(_)
BagSize(b) ==
    IF DOMAIN b = {} THEN 0
    ELSE LET e == CHOOSE x \in DOMAIN b : TRUE
         IN b[e] + BagSize([x \in DOMAIN b \ {e} |-> b[x]])

\* The rounds Brute.run has completed.
RoundsDone == IF brute.pc \in {"map", "merge"} THEN brute.rnd - 1 ELSE brute.rnd

\* C11: a round's merge phase takes the results of act_rew one by one, in
\* order, each once, the root's visits growing by one with each; between
\* rounds, after k rounds, the root's visits is k * W, as many results have
\* been merged, and the root's value is the largest reward among them.
C11_MergedOnce ==
    /\ [](brute.pc \in {"ready", "map"} =>
            /\ tree[<<>>].visits = RoundsDone * NumWorkers
            /\ BagSize(merged) = RoundsDone * NumWorkers
            /\ (RoundsDone >= 1 =>
                   tree[<<>>].value = SetMax({e.rew : e \in DOMAIN merged})))
    /\ [](brute.pc = "merge" =>
            /\ Len(pool.act_rew) = NumWorkers
            /\ tree[<<>>].visits = RoundsDone * NumWorkers + (brute.i - 1)
            /\ BagSize(merged) = tree[<<>>].visits)
    /\ [][tree' # tree =>
            /\ brute.pc = "merge"
            /\ brute'.i = brute.i + 1
            /\ call'.acts = pool.act_rew[brute.i].executed_acts
            /\ call'.rew = pool.act_rew[brute.i].total_rew
            /\ tree'[<<>>].visits = tree[<<>>].visits + 1]_vars

\* Three rounds are over, and the last one's results were not the best so
\* far.
C11_Witness ==
    /\ brute.pc = "ready"
    /\ brute.rnd >= 3
    /\ tree[<<>>].visits = 3 * NumWorkers
    /\ \A w \in 1..NumWorkers : pool.act_rew[w].total_rew < tree[<<>>].value

\* C12: right after a Brute agent is constructed, before it has run a
\* round, its tree is a single root with value -inf, visits 0 and no
\* children, and its node count is 1.
C12_FreshTree ==
    brute.pc = "ready" /\ brute.rnd = 0 =>
        /\ DOMAIN tree = {<<>>}
        /\ tree[<<>>].value = NegInf
        /\ tree[<<>>].visits = 0
        /\ Children(tree, <<>>) = {}
        /\ brute.node_count = 1

\* -------------------------------------------------------------- tree shape

\* The merged results whose executed trace passes through the node at p.
Through(p) == {e \in DOMAIN merged : IsPrefix(p, e.acts)}

\* C13: a node has a child for action a exactly when a merged rollout
\* executed a from that node; every node but the root has visits >= 1 and
\* a value above -inf, and lies no deeper than max_episode_steps.
C13_ChildIffExecuted ==
    /\ \A p \in DOMAIN tree : \A a \in Actions(n) :
          Append(p, a) \in DOMAIN tree <=> Through(Append(p, a)) # {}
    /\ \A p \in DOMAIN tree :
          /\ \A i \in 1..Len(p) : p[i] \in Actions(n)
          /\ p # <<>> =>
                /\ SubSeq(p, 1, Len(p) - 1) \in DOMAIN tree
                /\ tree[p].visits >= 1
                /\ tree[p].value > NegInf
                /\ Len(p) <= max_episode_steps

\* The visits of the children of the node at p for the actions of S, summed.
RECURSIVE ChildVisits(_, _, _)
ChildVisits(t, p, S) ==
    IF S = {} THEN 0
    ELSE LET a == CHOOSE x \in S : TRUE
         IN t[Append(p, a)].visits + ChildVisits(t, p, S \ {a})

\* C19: a child's value and visits are at most its parent's, and the
\* visits of a node's children sum to at most the node's visits; a node's
\* visits is the number of merged rollouts whose executed trace passes
\* through it and its value the largest total reward among them.
C19_ValueVisits ==
    \A p \in DOMAIN tree :
        /\ \A a \in Children(tree, p) :
              /\ tree[Append(p, a)].value <= tree[p].value
              /\ tree[Append(p, a)].visits <= tree[p].visits
        /\ ChildVisits(tree, p, Children(tree, p)) <= tree[p].visits
        /\ tree[p].visits = BagSize([e \in Through(p) |-> merged[e]])
        /\ tree[p].value = IF Through(p) = {} THEN NegInf
                           ELSE SetMax({e.rew : e \in Through(p)})

\* Two rollouts are merged: one ended at the root, and the other, of smaller
\* reward, went through a child.
C19_Witness ==
    /\ tree[<<>>].visits = 2
    /\ \E a \in Children(tree, <<>>) :
          /\ tree[<<a>>].value < tree[<<>>].value
          /\ ChildVisits(tree, <<>>, Children(tree, <<>>)) < tree[<<>>].visits

\* The tree holds a node as deep as max_episode_steps allows, whose parent
\* lacks the child of another action.
C13_Witness ==
    /\ max_episode_steps >= 2
    /\ \E p \in DOMAIN tree :
          /\ Len(p) = max_episode_steps
          /\ \E a \in Actions(n) :
                Append(SubSeq(p, 1, Len(p) - 1), a) \notin DOMAIN tree

\* The orders a sequence of k results can be put in.
Orders(k) == {f \in [1..k -> 1..k] : \A i, j \in 1..k : f[i] = f[j] => i = j}

\* Results of any reward, for traces the agent's configuration allows.
AnyResults ==
    {[executed_acts |-> r.acts, total_rew |-> r.rew] :
        r \in {x \in SeedResults :
                  /\ Len(x.acts) <= max_episode_steps
                  /\ \A i \in 1..Len(x.acts) : x.acts[i] \in Actions(n)}}

\* C20: merged into the tree a round starts with, in whatever order, the
\* results of the round give the same tree and the same total of new-node
\* counts, and so do any two results of any reward; the agent's node_count
\* is the number of nodes of the tree, root included.
C20_OrderIndependent ==
    /\ (brute.pc = "merge" /\ brute.i = 1 =>
          /\ \A f \in Orders(Len(pool.act_rew)) :
                merge_loop(tree, [k \in 1..Len(pool.act_rew) |->
                                     pool.act_rew[f[k]]], 1, brute.node_count)
                  = merge_loop(tree, pool.act_rew, 1, brute.node_count)
          /\ \A r1, r2 \in AnyResults :
                merge_loop(tree, <<r1, r2>>, 1, brute.node_count)
                  = merge_loop(tree, <<r2, r1>>, 1, brute.node_count))
    /\ (brute.pc # "none" => brute.node_count = Cardinality(DOMAIN tree))

\* A second round is about to merge two results of different traces and
\* rewards that start with the same action.
C20_Witness ==
    /\ brute.pc = "merge"
    /\ brute.i = 1
    /\ brute.rnd >= 2
    /\ brute.node_count >= 2
    /\ \E v, w \in 1..NumWorkers :
          /\ pool.act_rew[v].total_rew # pool.act_rew[w].total_rew
          /\ Len(pool.act_rew[v].executed_acts) >= 2
          /\ Len(pool.act_rew[w].executed_acts) >= 2
          /\ pool.act_rew[v].executed_acts[1] = pool.act_rew[w].executed_acts[1]

\* ------------------------------------------------------------- brute_retro

\* C14: timesteps changes only after a round, by the length of the round's
\* returned actions; the loop ends only at the check that follows a round,
\* exactly when timesteps > timestep_limit there, so every round starts with
\* timesteps within the limit; and with max_episode_steps >= 1 the loop
\* ends.
C14_Terminates ==
    /\ [][/\ (drv.pc = "after" =>
                drv'.timesteps = drv.timesteps + Len(brute.ret.executed_acts))
          /\ (drv'.timesteps # drv.timesteps => drv.pc = "after")
          /\ (drv.pc = "check" =>
                drv'.pc = IF drv.timesteps > TimestepLimit THEN "done"
                          ELSE "loop")
          /\ (drv'.pc = "done" => drv.pc = "check")]_vars
    /\ [](drv.pc \in {"loop", "run", "after"} => drv.timesteps <= TimestepLimit)
    /\ [](drv.pc = "done" => drv.timesteps > TimestepLimit)
    /\ (max_episode_steps >= 1 => <>(drv.pc = "done"))

\* The loop has ended one round after a round that left timesteps equal to
\* the limit.
C14_Witness ==
    /\ drv.pc = "done"
    /\ brute.rnd >= 2
    /\ drv.timesteps - Len(drv.acts) = TimestepLimit

\* C15: whatever becomes of the recording, failure included, the driver
\* goes on from it to the check of its budget, and so to further rounds
\* while the budget lasts.
C15_RecorderFailureContinues ==
    [][drv.pc = "record" => drv'.pc = "check"]_vars

\* C17: the driver's best reward never decreases; a round goes on to the
\* recording exactly when its returned reward is greater than the best
\* reward held before it, which then becomes that reward, and not when it
\* is equal; nothing else reaches the recording, and what is recorded is
\* the sequence the round returned.
C17_RecordOnStrictBest ==
    [][/\ drv'.best_rew >= drv.best_rew
       /\ (drv.pc = "after" =>
             /\ drv.rew = brute.ret.total_rew
             /\ (drv'.pc = "record" <=> drv.rew > drv.best_rew)
             /\ (drv'.pc = "check" <=> drv.rew <= drv.best_rew)
             /\ drv'.best_rew = Max(drv.rew, drv.best_rew))
       /\ (drv'.pc = "record" => drv.pc = "after")
       /\ (drv.pc = "record" =>
             drv'.recorded = brute.ret.executed_acts /\ drv'.pc = "check")
       /\ (drv'.recorded # drv.recorded => drv.pc = "record")]_vars

\* A round has returned the best reward once more, with another sequence,
\* and nothing was recorded.
C17_Witness ==
    /\ drv.pc = "check"
    /\ brute.rnd >= 2
    /\ drv.rew = drv.best_rew
    /\ drv.recorded # drv.acts

\* ---------------------------------------------------------- toy scenario

\* A result of the round in progress, or of the last one, has reward 5.
Found5 ==
    \E w \in DOMAIN pool.act_rew :
        pool.act_rew[w].done /\ pool.act_rew[w].total_rew = 5

====
